---- MODULE Spec2Model ----
(***************************************************************************)
(* The two-tier TTL cache of LiveTest.AI (CacheService): an in-memory Map  *)
(* mirrored into localStorage under the prefix cache_, with the            *)
(* read-through wrapper getCachedOrFetch and its stale fallback.            *)
(*                                                                         *)
(* JavaScript values are named by strings ("null", "undefined", "0", "5",  *)
(* "NaN", "cyclic", ...), so that every value of the model has one type.   *)
(* Time is Date.now() in milliseconds.                                     *)
(***************************************************************************)
EXTENDS Integers, Sequences, FiniteSets, TLC

VARIABLES
    w,          \* the workload: the inputs the callers draw from
    cache,      \* CacheService.cache: the Map key -> CacheItem (fast tier)
    durable,    \* localStorage: storage key -> stored text (durable tier)
    clock,      \* Date.now()
    pending,    \* getCachedOrFetch calls suspended at `await fetchFn()`
    written,    \* history: per key, the CacheItem of the latest set of that key
    last        \* history: the operation that ran last, its arguments and outcome

vars == <<w, cache, durable, clock, pending, written, last>>

----------------------------------------------------------------------------
(* Bounds of the model *)

MaxClock == 2
MaxCalls == 2

(* Program constants *)

DefaultTTL == 300000
NoTtl == -1
NoTimestamp == -1

Prefix == "cache_"

----------------------------------------------------------------------------
(* Inputs *)

(* A workload is what the callers of the cache do in one behaviour: the    *)
(* keys, patterns, values and ttl arguments they use, how many of them     *)
(* call getCachedOrFetch at the same time, the storage keys shared with    *)
(* other code of the page, and whether the page starts and submits tests   *)
(* (posts); w holds the one chosen.                                        *)
ValueWorkload ==
    [keys |-> {"B"}, patterns |-> {"B", "x"},
     vals |-> {"5", "0", "null", "NaN", "cyclic"}, ttls |-> {1}, callers |-> 1,
     shared |-> {}, posts |-> FALSE]
TtlWorkload ==
    [keys |-> {"A"}, patterns |-> {"A", ""},
     vals |-> {"5", "obj"}, ttls |-> {NoTtl, 0, 1}, callers |-> 1, shared |-> {},
     posts |-> FALSE]
KeyWorkload ==
    [keys |-> {"user_dashboard", "leaderboard_global_10"},
     patterns |-> {"user", "leaderboard", "_"},
     vals |-> {"5"}, ttls |-> {1}, callers |-> 0, shared |-> {},
     posts |-> TRUE]
ConcurrentWorkload ==
    [keys |-> {"K"}, patterns |-> {"K"},
     vals |-> {"5", "7"}, ttls |-> {1}, callers |-> MaxCalls, shared |-> {},
     posts |-> FALSE]
(* shared: the storage keys that another user of localStorage writes too *)
SharedWorkload ==
    [keys |-> {"F"}, patterns |-> {"F"},
     vals |-> {"5"}, ttls |-> {1}, callers |-> 1, shared |-> {"cache_F"},
     posts |-> FALSE]
Workloads ==
    {ValueWorkload, TtlWorkload, KeyWorkload, ConcurrentWorkload, SharedWorkload}

(* CACHE_KEYS *)
USER_DASHBOARD == "user_dashboard"
USER_TESTS == "user_tests"
USER_EXAM_HISTORY == "user_exam_history"

FetchErrors == {"NetworkError", "Http500"}
CallIds == 1..MaxCalls

Null == "null"
Undefined == "undefined"
NoError == "none"
StorageErrors == {"QuotaExceededError", "SecurityError", "TypeError", "SyntaxError"}

(* JavaScript truthiness of a value *)
Truthy(v) == v \notin {"null", "undefined", "0", "NaN", "false", ""}

----------------------------------------------------------------------------
(* Maps *)

EmptyMap == [x \in {} |-> TRUE]
MapPut(m, k, e) == [x \in DOMAIN m \cup {k} |-> IF x = k THEN e ELSE m[x]]
MapDel(m, k) == [x \in DOMAIN m \ {k} |-> m[x]]

(* String.prototype.includes and startsWith *)
Includes(s, p) ==
    \E i \in 1..(Len(s) - Len(p) + 1) : SubSeq(s, i, i + Len(p) - 1) = p
StartsWith(s, p) == Len(s) >= Len(p) /\ SubSeq(s, 1, Len(p)) = p

StorageKey(k) == Prefix \o k

----------------------------------------------------------------------------
(* JSON.stringify / JSON.parse of a CacheItem *)

(* Values JSON.stringify throws on (circular structure, BigInt) *)
StringifyThrows(v) == v = "cyclic"

(* The text of the data property: undefined is omitted, NaN becomes null *)
DataToJSON(v) ==
    IF v = "undefined" THEN "<omitted>"
    ELSE IF v = "NaN" THEN "null"
    ELSE v

DataFromJSON(t) == IF t = "<omitted>" THEN "undefined" ELSE t

Stringify(item) ==
    [kind |-> "item", data |-> DataToJSON(item.data),
     timestamp |-> item.timestamp, ttl |-> item.ttl]

(* Texts that are not the JSON of a CacheItem: "text" is no JSON at all    *)
(* (a JWT, a truncated record), "json" is the JSON of a number, a string   *)
(* or an object that has none of data, timestamp and ttl.                  *)
ForeignText(kind) ==
    [kind |-> kind, data |-> "<omitted>", timestamp |-> NoTimestamp, ttl |-> NoTtl]
ForeignRecords == {ForeignText("text"), ForeignText("json")}

(* JSON.parse throws a SyntaxError *)
ParseThrows(text) == text.kind = "text"

(* The value JSON.parse returns, read through .data, .timestamp and .ttl:  *)
(* a property the value lacks reads as undefined.                          *)
Parse(text) ==
    [data |-> DataFromJSON(text.data), timestamp |-> text.timestamp, ttl |-> text.ttl]

----------------------------------------------------------------------------
(* localStorage calls; `throws` is the environment's choice to fail the call *)

GetItem(d, sk, throws) ==
    IF throws THEN [found |-> FALSE, error |-> "SecurityError"]
    ELSE [found |-> sk \in DOMAIN d, error |-> NoError]

SetItem(d, sk, text, throws) ==
    IF throws THEN [durable |-> d, error |-> "QuotaExceededError"]
    ELSE [durable |-> MapPut(d, sk, text), error |-> NoError]

RemoveItem(d, sk, throws) ==
    IF throws THEN [durable |-> d, error |-> "SecurityError"]
    ELSE [durable |-> MapDel(d, sk), error |-> NoError]

----------------------------------------------------------------------------
(* CacheService *)

EffectiveTTL(ttl) == IF ttl = NoTtl \/ ttl = 0 THEN DefaultTTL ELSE ttl

(* The expiry test with the operands of the subtraction swapped *)
IsExpiredSwapped(item, now) == item.timestamp - now > item.ttl

(* The expiry test with >= in place of > *)
IsExpiredInclusive(item, now) ==
    /\ item.timestamp # NoTimestamp
    /\ item.ttl # NoTtl
    /\ now - item.timestamp >= item.ttl

(* now - timestamp > ttl; with an undefined operand the comparison is     *)
(* false                                                                   *)
IsExpired(item, now) ==
    /\ item.timestamp # NoTimestamp
    /\ item.ttl # NoTtl
    /\ now - item.timestamp > item.ttl

NewItem(data, now, ttl) ==
    [data |-> data, timestamp |-> now, ttl |-> EffectiveTTL(ttl)]

(* A set that writes the Map inside the try block, after setItem *)
SetOpPersistFirst(c, d, now, k, data, ttl, throws) ==
    LET item == [data |-> data, timestamp |-> now,
                 ttl |-> IF ttl = NoTtl \/ ttl = 0 THEN DefaultTTL ELSE ttl]
        wr == IF StringifyThrows(data)
              THEN [durable |-> d, error |-> "TypeError"]
              ELSE SetItem(d, StorageKey(k), Stringify(item), throws)
    IN [cache |-> IF wr.error = NoError THEN MapPut(c, k, item) ELSE c,
        durable |-> wr.durable, mirrored |-> wr.error = NoError, raised |-> NoError]

(* A set that keeps the Map entry a key already has *)
SetOpKeepExisting(c, d, now, k, data, ttl, throws) ==
    LET item == [data |-> data, timestamp |-> now,
                 ttl |-> IF ttl = NoTtl \/ ttl = 0 THEN DefaultTTL ELSE ttl]
        wr == IF StringifyThrows(data)
              THEN [durable |-> d, error |-> "TypeError"]
              ELSE SetItem(d, StorageKey(k), Stringify(item), throws)
    IN [cache |-> IF k \in DOMAIN c THEN c ELSE MapPut(c, k, item),
        durable |-> wr.durable, mirrored |-> wr.error = NoError, raised |-> NoError]

(* set(key, data, ttl): the result is the new tiers, whether the durable   *)
(* write took place (mirrored) and the error that leaves the method.       *)
SetOp(c, d, now, k, data, ttl, throws) ==
    LET item == NewItem(data, now, ttl)
        wr == IF StringifyThrows(data)
              THEN [durable |-> d, error |-> "TypeError"]
              ELSE SetItem(d, StorageKey(k), Stringify(item), throws)
    IN [cache |-> MapPut(c, k, item), durable |-> wr.durable,
        mirrored |-> wr.error = NoError, raised |-> NoError]

(* A delete without the try/catch around removeItem *)
DeleteOpNoCatch(c, d, k, throws) ==
    LET r == RemoveItem(d, StorageKey(k), throws)
    IN [cache |-> MapDel(c, k), durable |-> r.durable, raised |-> r.error]

(* A delete that forgets the record in localStorage *)
DeleteOpMapOnly(c, d, k, throws) ==
    [cache |-> MapDel(c, k), durable |-> d, raised |-> NoError]

(* A delete that removes the record first and keeps the Map entry when    *)
(* removeItem throws                                                       *)
DeleteOpDurableFirst(c, d, k, throws) ==
    LET r == RemoveItem(d, StorageKey(k), throws)
    IN IF r.error # NoError
       THEN [cache |-> c, durable |-> d, raised |-> NoError]
       ELSE [cache |-> MapDel(c, k), durable |-> r.durable, raised |-> NoError]

(* delete(key) *)
DeleteOp(c, d, k, throws) ==
    LET r == RemoveItem(d, StorageKey(k), throws)
    IN [cache |-> MapDel(c, k), durable |-> r.durable, raised |-> NoError]

(* A get that reports an expired entry as a miss and leaves it stored *)
GetOpNoEvict(c, d, now, k, getThrows, rmThrows) ==
    LET inMemory == k \in DOMAIN c
        rd == GetItem(d, StorageKey(k), getThrows)
        loaded == /\ ~inMemory /\ rd.error = NoError /\ rd.found
                  /\ ~ParseThrows(d[StorageKey(k)])
        item == IF inMemory THEN c[k] ELSE Parse(d[StorageKey(k)])
        c1 == IF loaded THEN MapPut(c, k, item) ELSE c
    IN IF ~inMemory /\ ~loaded
       THEN [cache |-> c, durable |-> d, ret |-> Null, raised |-> NoError,
             evicted |-> FALSE]
       ELSE IF IsExpired(item, now)
       THEN [cache |-> c1, durable |-> d, ret |-> Null, raised |-> NoError,
             evicted |-> TRUE]
       ELSE [cache |-> c1, durable |-> d, ret |-> item.data, raised |-> NoError,
             evicted |-> FALSE]

(* A get that returns what it loaded without putting it into the Map *)
GetOpNoPromote(c, d, now, k, getThrows, rmThrows) ==
    LET inMemory == k \in DOMAIN c
        rd == GetItem(d, StorageKey(k), getThrows)
        loaded == /\ ~inMemory /\ rd.error = NoError /\ rd.found
                  /\ ~ParseThrows(d[StorageKey(k)])
        item == IF inMemory THEN c[k] ELSE Parse(d[StorageKey(k)])
    IN IF ~inMemory /\ ~loaded
       THEN [cache |-> c, durable |-> d, ret |-> Null, raised |-> NoError,
             evicted |-> FALSE]
       ELSE IF IsExpired(item, now)
       THEN LET del == DeleteOp(c, d, k, rmThrows)
            IN [cache |-> del.cache, durable |-> del.durable,
                ret |-> Null, raised |-> del.raised, evicted |-> TRUE]
       ELSE [cache |-> c, durable |-> d, ret |-> item.data, raised |-> NoError,
             evicted |-> FALSE]

(* get(key): getThrows fails localStorage.getItem, rmThrows fails the      *)
(* removeItem of the lazy eviction; evicted tells that this.delete ran.    *)
(* Whatever JSON.parse returns is truthy here and goes into the Map.       *)
GetOp(c, d, now, k, getThrows, rmThrows) ==
    LET inMemory == k \in DOMAIN c
        rd == GetItem(d, StorageKey(k), getThrows)
        loaded == /\ ~inMemory /\ rd.error = NoError /\ rd.found
                  /\ ~ParseThrows(d[StorageKey(k)])
        item == IF inMemory THEN c[k] ELSE Parse(d[StorageKey(k)])
        c1 == IF loaded THEN MapPut(c, k, item) ELSE c
    IN IF ~inMemory /\ ~loaded
       THEN [cache |-> c, durable |-> d, ret |-> Null, raised |-> NoError,
             evicted |-> FALSE]
       ELSE IF IsExpired(item, now)
       THEN LET del == DeleteOp(c1, d, k, rmThrows)
            IN [cache |-> del.cache, durable |-> del.durable,
                ret |-> Null, raised |-> del.raised, evicted |-> TRUE]
       ELSE [cache |-> c1, durable |-> d, ret |-> item.data, raised |-> NoError,
             evicted |-> FALSE]

(* getStale(key) *)
GetStale(c, d, k, getThrows) ==
    IF k \in DOMAIN c THEN c[k].data
    ELSE LET rd == GetItem(d, StorageKey(k), getThrows)
         IN IF rd.error = NoError /\ rd.found /\ ~ParseThrows(d[StorageKey(k)])
            THEN LET data == Parse(d[StorageKey(k)]).data
                 IN IF Truthy(data) THEN data ELSE Null
            ELSE Null

(* A clear that empties the Map and leaves localStorage alone *)
ClearOpMemoryOnly(c, d, throws, removed) ==
    [cache |-> EmptyMap, durable |-> d, raised |-> NoError]

(* A clear that calls localStorage.clear() *)
ClearOpWipe(c, d, throws, removed) ==
    [cache |-> EmptyMap, durable |-> EmptyMap, raised |-> NoError]

(* clear(): `throws` fails the enumeration or a removeItem; removed is the *)
(* set of records removed before the failure.                              *)
KeysToRemove(d) == {sk \in DOMAIN d : StartsWith(sk, Prefix)}

ClearOp(c, d, throws, removed) ==
    LET gone == IF throws THEN removed ELSE KeysToRemove(d)
    IN [cache |-> EmptyMap, durable |-> [sk \in DOMAIN d \ gone |-> d[sk]],
        raised |-> NoError]

(* keysToDelete.forEach(key => this.delete(key)): rmFail is the set of keys *)
(* whose removeItem throws; an error leaving delete would end the loop.     *)
RECURSIVE DeleteEach(_, _, _, _)
DeleteEach(c, d, ks, rmFail) ==
    IF ks = {} THEN [cache |-> c, durable |-> d, raised |-> NoError]
    ELSE LET k == CHOOSE x \in ks : TRUE
             r == DeleteOp(c, d, k, k \in rmFail)
         IN IF r.raised # NoError THEN r
            ELSE DeleteEach(r.cache, r.durable, ks \ {k}, rmFail)

(* getStats() *)
GetStats(c) == [size |-> Cardinality(DOMAIN c), keys |-> DOMAIN c]

(* A cleanup that calls this.cache.delete instead of this.delete *)
CleanupOpMapOnly(c, d, now, rmFail) ==
    [cache |-> [k \in {x \in DOMAIN c : ~IsExpired(c[x], now)} |-> c[k]],
     durable |-> d, raised |-> NoError]

(* cleanup() *)
CleanupOp(c, d, now, rmFail) ==
    DeleteEach(c, d, {k \in DOMAIN c : IsExpired(c[k], now)}, rmFail)

(* An invalidatePattern that calls this.cache.delete instead of this.delete *)
InvalidatePatternOpMapOnly(c, d, pattern, rmFail) ==
    [cache |-> [k \in {x \in DOMAIN c : ~Includes(x, pattern)} |-> c[k]],
     durable |-> d, raised |-> NoError]

(* An invalidatePattern that also scans the keys of localStorage *)
InvalidatePatternOpAllTiers(c, d, pattern, rmFail) ==
    LET r == DeleteEach(c, d, {k \in DOMAIN c : Includes(k, pattern)}, rmFail)
        kept == {sk \in DOMAIN r.durable :
                    ~(/\ StartsWith(sk, Prefix)
                      /\ Includes(SubSeq(sk, Len(Prefix) + 1, Len(sk)), pattern))}
    IN [cache |-> r.cache, durable |-> [sk \in kept |-> r.durable[sk]],
        raised |-> r.raised]

(* invalidatePattern(pattern) *)
InvalidatePatternOp(c, d, pattern, rmFail) ==
    DeleteEach(c, d, {k \in DOMAIN c : Includes(k, pattern)}, rmFail)

(* preload(data, ttl): data is a map key -> value, setFail the keys whose  *)
(* setItem throws.                                                         *)
RECURSIVE PreloadOp(_, _, _, _, _, _)
PreloadOp(c, d, now, data, ttl, setFail) ==
    IF DOMAIN data = {} THEN [cache |-> c, durable |-> d, raised |-> NoError]
    ELSE LET k == CHOOSE x \in DOMAIN data : TRUE
             r == SetOp(c, d, now, k, data[k], ttl, k \in setFail)
         IN IF r.raised # NoError
            THEN [cache |-> r.cache, durable |-> r.durable, raised |-> r.raised]
            ELSE PreloadOp(r.cache, r.durable, now, MapDel(data, k), ttl, setFail)

(* The keys invalidateUserCaches calls this.delete for *)
InvalidatedKeys(c) ==
    {USER_DASHBOARD, USER_TESTS}
        \cup {k \in DOMAIN c : Includes(k, USER_EXAM_HISTORY) \/ Includes(k, "leaderboard")}

(* ApiService.invalidateUserCaches(): rmFail is the set of keys whose       *)
(* removeItem throws.                                                      *)
InvalidateUserCachesOp(c, d, rmFail) ==
    LET r1 == DeleteOp(c, d, USER_DASHBOARD, USER_DASHBOARD \in rmFail)
        r2 == DeleteOp(r1.cache, r1.durable, USER_TESTS, USER_TESTS \in rmFail)
        r3 == InvalidatePatternOp(r2.cache, r2.durable, USER_EXAM_HISTORY, rmFail)
    IN InvalidatePatternOp(r3.cache, r3.durable, "leaderboard", rmFail)

(* A getCachedOrFetch that calls fetchFn whatever get returned *)
FetchStartOpAlwaysFetch(c, d, now, k, getThrows, rmThrows) ==
    LET g == GetOp(c, d, now, k, getThrows, rmThrows)
    IN [cache |-> g.cache, durable |-> g.durable, ret |-> g.ret,
        raised |-> g.raised, evicted |-> g.evicted, fetched |-> TRUE]

(* getCachedOrFetch up to `await fetchFn()`: a hit returns, a miss calls   *)
(* fetchFn and suspends.                                                   *)
FetchStartOp(c, d, now, k, getThrows, rmThrows) ==
    LET g == GetOp(c, d, now, k, getThrows, rmThrows)
    IN [cache |-> g.cache, durable |-> g.durable, ret |-> g.ret,
        raised |-> g.raised, evicted |-> g.evicted, fetched |-> g.ret = Null]

(* A getCachedOrFetch that keeps the entry another call wrote meanwhile *)
FetchResolveOpFirstWins(c, d, now, k, data, ttl, setThrows) ==
    LET r == SetOp(c, d, now, k, data, ttl, setThrows)
    IN IF k \in DOMAIN c
       THEN [cache |-> c, durable |-> d, mirrored |-> FALSE,
             ret |-> data, raised |-> NoError]
       ELSE [cache |-> r.cache, durable |-> r.durable, mirrored |-> r.mirrored,
             ret |-> data, raised |-> r.raised]

(* A getCachedOrFetch that returns the fetched data without storing it *)
FetchResolveOpNoWrite(c, d, now, k, data, ttl, setThrows) ==
    [cache |-> c, durable |-> d, mirrored |-> FALSE, ret |-> data, raised |-> NoError]

(* getCachedOrFetch after fetchFn resolved with data *)
FetchResolveOp(c, d, now, k, data, ttl, setThrows) ==
    LET r == SetOp(c, d, now, k, data, ttl, setThrows)
    IN [cache |-> r.cache, durable |-> r.durable, mirrored |-> r.mirrored,
        ret |-> data, raised |-> r.raised]

(* A catch block that throws a new error in place of the one it caught *)
FetchRejectOpWrapped(c, d, k, error, getThrows) ==
    LET staleData == GetStale(c, d, k, getThrows)
    IN IF staleData # Null
       THEN [cache |-> c, durable |-> d, ret |-> staleData, raised |-> NoError]
       ELSE [cache |-> c, durable |-> d, ret |-> Undefined, raised |-> "FetchFailed"]

(* getCachedOrFetch after fetchFn rejected with error: the catch block *)
FetchRejectOp(c, d, k, error, getThrows) ==
    LET staleData == GetStale(c, d, k, getThrows)
    IN IF staleData # Null
       THEN [cache |-> c, durable |-> d, ret |-> staleData, raised |-> NoError]
       ELSE [cache |-> c, durable |-> d, ret |-> Undefined, raised |-> error]

----------------------------------------------------------------------------
(* The state machine *)

(* last: op and step name the operation (step: the part of               *)
(* getCachedOrFetch that ran), key, data and ttl are its arguments (data   *)
(* is also the value or error fetchFn settled with), ret and raised its    *)
(* outcome, fault tells that a localStorage call or JSON.stringify threw   *)
(* in it, fetched that it called fetchFn, prior what the two tiers held    *)
(* for key when set, get or delete began, invalidated (on the step that    *)
(* settles a fetch) that the step before it removed the entry of key while *)
(* the call was waiting.                                                   *)
NoEntry == "<no entry>"

NoPrior == [fast |-> NoEntry, durable |-> NoEntry]

NoOp == [op |-> "init", step |-> "", key |-> "", data |-> Undefined, ttl |-> NoTtl,
         ret |-> Undefined, raised |-> NoError, fault |-> FALSE, fetched |-> FALSE,
         prior |-> NoPrior, invalidated |-> FALSE]

(* The operation that ran last was a delete, clear, invalidatePattern or    *)
(* invalidateUserCaches that covers key k                                  *)
Invalidates(l, k) ==
    \/ l.op = "delete" /\ l.key = k
    \/ l.op = "clear"
    \/ l.op = "invalidatePattern" /\ Includes(k, l.key)
    \/ /\ l.op = "submitTest" /\ l.step = "posted"
       /\ \/ k \in {USER_DASHBOARD, USER_TESTS}
          \/ Includes(k, USER_EXAM_HISTORY) \/ Includes(k, "leaderboard")

(* The data of k in the Map and the data text of its record in localStorage *)
Prior(c, d, k) ==
    [fast |-> IF k \in DOMAIN c THEN c[k].data ELSE NoEntry,
     durable |-> IF StorageKey(k) \in DOMAIN d THEN d[StorageKey(k)].data ELSE NoEntry]

Idle == [active |-> FALSE, key |-> "", ttl |-> NoTtl]

(* The value stored under k: in the fast tier, else in the durable tier *)
StoredData(c, d, k) ==
    IF k \in DOMAIN c THEN c[k].data
    ELSE IF StorageKey(k) \in DOMAIN d /\ ~ParseThrows(d[StorageKey(k)])
    THEN Parse(d[StorageKey(k)]).data
    ELSE NoEntry

WrittenItem(data, now, ttl, mirrored) ==
    [data |-> data, timestamp |-> now, ttl |-> EffectiveTTL(ttl), mirrored |-> mirrored]

(* What localStorage holds besides the cache: the session token *)
OtherStorage == [sk \in {"token"} |-> ForeignText("text")]

Init ==
    /\ w \in Workloads
    /\ cache = EmptyMap
    /\ durable = OtherStorage
    /\ clock = 0
    /\ pending = [i \in CallIds |-> Idle]
    /\ written = EmptyMap
    /\ last = NoOp

Set(k, v, t, throws) ==
    LET r == SetOp(cache, durable, clock, k, v, t, throws)
    IN /\ throws => ~StringifyThrows(v)
       /\ cache' = r.cache
       /\ durable' = r.durable
       /\ written' = MapPut(written, k, WrittenItem(v, clock, t, r.mirrored))
       /\ last' = [NoOp EXCEPT !.op = "set", !.key = k, !.data = v, !.ttl = t,
                               !.raised = r.raised, !.fault = ~r.mirrored,
                               !.prior = Prior(cache, durable, k)]
       /\ UNCHANGED <<w, clock, pending>>

Get(k, getThrows, rmThrows) ==
    LET r == GetOp(cache, durable, clock, k, getThrows, rmThrows)
    IN /\ getThrows => k \notin DOMAIN cache
       /\ rmThrows => r.evicted
       /\ cache' = r.cache
       /\ durable' = r.durable
       /\ last' = [NoOp EXCEPT !.op = "get", !.key = k, !.ret = r.ret,
                               !.raised = r.raised, !.fault = getThrows \/ rmThrows,
                               !.prior = Prior(cache, durable, k)]
       /\ UNCHANGED <<w, clock, pending, written>>

Has(k, getThrows, rmThrows) ==
    LET r == GetOp(cache, durable, clock, k, getThrows, rmThrows)
    IN /\ getThrows => k \notin DOMAIN cache
       /\ rmThrows => r.evicted
       /\ cache' = r.cache
       /\ durable' = r.durable
       /\ last' = [NoOp EXCEPT !.op = "has", !.key = k,
                               !.ret = IF r.ret # Null THEN "true" ELSE "false",
                               !.raised = r.raised, !.fault = getThrows \/ rmThrows]
       /\ UNCHANGED <<w, clock, pending, written>>

Delete(k, throws) ==
    LET r == DeleteOp(cache, durable, k, throws)
    IN /\ cache' = r.cache
       /\ durable' = r.durable
       /\ last' = [NoOp EXCEPT !.op = "delete", !.key = k,
                               !.raised = r.raised, !.fault = throws,
                               !.prior = Prior(cache, durable, k)]
       /\ UNCHANGED <<w, clock, pending, written>>

Clear(throws, removed) ==
    LET r == ClearOp(cache, durable, throws, removed)
    IN /\ throws => removed # KeysToRemove(durable) \/ removed = {}
       /\ ~throws => removed = KeysToRemove(durable)
       /\ cache' = r.cache
       /\ durable' = r.durable
       /\ last' = [NoOp EXCEPT !.op = "clear", !.raised = r.raised, !.fault = throws]
       /\ UNCHANGED <<w, clock, pending, written>>

Cleanup(rmFail) ==
    LET r == CleanupOp(cache, durable, clock, rmFail)
    IN /\ rmFail \subseteq {k \in DOMAIN cache : IsExpired(cache[k], clock)}
       /\ cache' = r.cache
       /\ durable' = r.durable
       /\ last' = [NoOp EXCEPT !.op = "cleanup", !.raised = r.raised,
                               !.fault = rmFail # {}]
       /\ UNCHANGED <<w, clock, pending, written>>

InvalidatePattern(p, rmFail) ==
    LET r == InvalidatePatternOp(cache, durable, p, rmFail)
    IN /\ rmFail \subseteq {k \in DOMAIN cache : Includes(k, p)}
       /\ cache' = r.cache
       /\ durable' = r.durable
       /\ last' = [NoOp EXCEPT !.op = "invalidatePattern", !.key = p,
                               !.raised = r.raised, !.fault = rmFail # {}]
       /\ UNCHANGED <<w, clock, pending, written>>

Preload(data, t, setFail) ==
    LET r == PreloadOp(cache, durable, clock, data, t, setFail)
    IN /\ setFail \subseteq {k \in DOMAIN data : ~StringifyThrows(data[k])}
       /\ cache' = r.cache
       /\ durable' = r.durable
       /\ written' = [k \in DOMAIN written \cup DOMAIN data |->
                        IF k \in DOMAIN data
                        THEN WrittenItem(data[k], clock, t,
                                         k \notin setFail /\ ~StringifyThrows(data[k]))
                        ELSE written[k]]
       /\ last' = [NoOp EXCEPT !.op = "preload", !.ttl = t, !.raised = r.raised,
                               !.fault = \E k \in DOMAIN data :
                                   k \in setFail \/ StringifyThrows(data[k])]
       /\ UNCHANGED <<w, clock, pending>>

(* A caller starts getCachedOrFetch(k, fetchFn, t) as call i *)
FetchStart(i, k, t, getThrows, rmThrows) ==
    LET r == FetchStartOp(cache, durable, clock, k, getThrows, rmThrows)
    IN /\ i <= w.callers
       /\ ~pending[i].active
       /\ \A j \in CallIds : j < i => pending[j].active
       /\ getThrows => k \notin DOMAIN cache
       /\ rmThrows => r.evicted
       /\ cache' = r.cache
       /\ durable' = r.durable
       /\ pending' = IF r.fetched
                     THEN [pending EXCEPT ![i] = [active |-> TRUE, key |-> k, ttl |-> t]]
                     ELSE pending
       /\ last' = [NoOp EXCEPT !.op = "getCachedOrFetch",
                               !.step = IF r.fetched THEN "await" ELSE "hit",
                               !.key = k, !.ttl = t,
                               !.ret = IF r.fetched THEN Undefined ELSE r.ret,
                               !.raised = r.raised, !.fetched = r.fetched,
                               !.fault = getThrows \/ rmThrows]
       /\ UNCHANGED <<w, clock, written>>

(* The fetchFn of call i resolves with v *)
FetchResolve(i, v, setThrows) ==
    LET k == pending[i].key
        t == pending[i].ttl
        r == FetchResolveOp(cache, durable, clock, k, v, t, setThrows)
    IN /\ pending[i].active
       /\ setThrows => ~StringifyThrows(v)
       /\ cache' = r.cache
       /\ durable' = r.durable
       /\ pending' = [pending EXCEPT ![i] = Idle]
       /\ written' = MapPut(written, k, WrittenItem(v, clock, t, r.mirrored))
       /\ last' = [NoOp EXCEPT !.op = "getCachedOrFetch", !.step = "resolve",
                               !.key = k, !.data = v, !.ttl = t, !.ret = r.ret,
                               !.raised = r.raised, !.fault = ~r.mirrored,
                               !.invalidated = Invalidates(last, k)]
       /\ UNCHANGED <<w, clock>>

(* The fetchFn of call i rejects with error e *)
FetchReject(i, e, getThrows) ==
    LET k == pending[i].key
        r == FetchRejectOp(cache, durable, k, e, getThrows)
    IN /\ pending[i].active
       /\ getThrows => k \notin DOMAIN cache
       /\ cache' = r.cache
       /\ durable' = r.durable
       /\ pending' = [pending EXCEPT ![i] = Idle]
       /\ last' = [NoOp EXCEPT !.op = "getCachedOrFetch", !.step = "reject",
                               !.key = k, !.data = e, !.ttl = pending[i].ttl,
                               !.ret = r.ret, !.raised = r.raised, !.fault = getThrows]
       /\ UNCHANGED <<w, clock, written>>

(* The callback of the setInterval timer runs cleanup() *)
Sweep(rmFail) ==
    LET r == CleanupOp(cache, durable, clock, rmFail)
    IN /\ rmFail \subseteq {k \in DOMAIN cache : IsExpired(cache[k], clock)}
       /\ cache' = r.cache
       /\ durable' = r.durable
       /\ last' = [NoOp EXCEPT !.op = "cleanup", !.step = "timer",
                               !.raised = r.raised, !.fault = rmFail # {}]
       /\ UNCHANGED <<w, clock, pending, written>>

(* ApiService.startTest / submitTest: the POST succeeds (ok) and           *)
(* invalidateUserCaches runs, or it fails and the method throws before.    *)
SubmitTest(ok, rmFail) ==
    LET r == InvalidateUserCachesOp(cache, durable, rmFail)
    IN /\ w.posts
       /\ rmFail \subseteq InvalidatedKeys(cache)
       /\ ~ok => rmFail = {}
       /\ cache' = IF ok THEN r.cache ELSE cache
       /\ durable' = IF ok THEN r.durable ELSE durable
       /\ last' = [NoOp EXCEPT !.op = "submitTest",
                               !.step = IF ok THEN "posted" ELSE "postFailed",
                               !.fault = rmFail # {}]
       /\ UNCHANGED <<w, clock, pending, written>>

(* Other code of the page writes text under a storage key it shares with   *)
(* the cache; the record of that key is no longer the one set mirrored.    *)
ForeignWrite(sk, text) ==
    /\ durable' = MapPut(durable, sk, text)
    /\ written' = [k \in DOMAIN written |->
                     IF StorageKey(k) = sk
                     THEN [written[k] EXCEPT !.mirrored = FALSE]
                     ELSE written[k]]
    /\ last' = [NoOp EXCEPT !.op = "foreignWrite"]
    /\ UNCHANGED <<w, cache, clock, pending>>

(* The page is reloaded: a new CacheService with an empty Map, the calls   *)
(* in flight are gone, localStorage stays.                                 *)
Restart ==
    /\ cache' = EmptyMap
    /\ pending' = [i \in CallIds |-> Idle]
    /\ last' = [NoOp EXCEPT !.op = "restart"]
    /\ UNCHANGED <<w, durable, clock, written>>

(* Date.now() advances *)
Tick ==
    /\ clock < MaxClock
    /\ clock' = clock + 1
    /\ last' = [NoOp EXCEPT !.op = "tick"]
    /\ UNCHANGED <<w, cache, durable, pending, written>>

PreloadInputs == UNION {[S -> w.vals] : S \in SUBSET w.keys \ {{}}}

Next ==
    \/ \E k \in w.keys, v \in w.vals, t \in w.ttls, throws \in BOOLEAN :
           Set(k, v, t, throws)
    \/ \E k \in w.keys, getThrows \in BOOLEAN, rmThrows \in BOOLEAN :
           Get(k, getThrows, rmThrows)
    \/ \E k \in w.keys, getThrows \in BOOLEAN, rmThrows \in BOOLEAN :
           Has(k, getThrows, rmThrows)
    \/ \E k \in w.keys, throws \in BOOLEAN : Delete(k, throws)
    \/ \E throws \in BOOLEAN, removed \in SUBSET KeysToRemove(durable) :
           Clear(throws, removed)
    \/ \E rmFail \in SUBSET w.keys : Cleanup(rmFail)
    \/ \E rmFail \in SUBSET w.keys : Sweep(rmFail)
    \/ \E ok \in BOOLEAN, rmFail \in SUBSET w.keys : SubmitTest(ok, rmFail)
    \/ \E p \in w.patterns, rmFail \in SUBSET w.keys : InvalidatePattern(p, rmFail)
    \/ \E data \in PreloadInputs, t \in w.ttls, setFail \in SUBSET w.keys :
           Preload(data, t, setFail)
    \/ \E i \in CallIds, k \in w.keys, t \in w.ttls,
          getThrows \in BOOLEAN, rmThrows \in BOOLEAN :
           FetchStart(i, k, t, getThrows, rmThrows)
    \/ \E i \in CallIds, v \in w.vals, setThrows \in BOOLEAN :
           FetchResolve(i, v, setThrows)
    \/ \E i \in CallIds, e \in FetchErrors, getThrows \in BOOLEAN :
           FetchReject(i, e, getThrows)
    \/ \E sk \in w.shared, text \in ForeignRecords : ForeignWrite(sk, text)
    \/ Restart
    \/ Tick

Spec == Init /\ [][Next]_vars

----------------------------------------------------------------------------
(* Properties *)

(* get(k) run in the current state, no storage call failing *)
GetNow(k) == GetOp(cache, durable, clock, k, FALSE, FALSE)

(* A non-expired entry exists for k: in the fast tier, or in the durable tier only *)
FreshEntry(c, d, now, k) ==
    \/ k \in DOMAIN c /\ ~IsExpired(c[k], now)
    \/ k \notin DOMAIN c /\ StorageKey(k) \in DOMAIN d
         /\ ~IsExpired(Parse(d[StorageKey(k)]), now)

(* The entry of k is the same in both tiers before and after the step *)
SameEntry(k) ==
    /\ (k \in DOMAIN cache) = (k \in DOMAIN cache')
    /\ k \in DOMAIN cache => cache'[k] = cache[k]
    /\ (StorageKey(k) \in DOMAIN durable) = (StorageKey(k) \in DOMAIN durable')
    /\ StorageKey(k) \in DOMAIN durable => durable'[StorageKey(k)] = durable[StorageKey(k)]

(* C1: stale fallback. When getCachedOrFetch(k, fetchFn) starts while an   *)
(* entry with a value other than null is stored for k (expired or not), no *)
(* storage call fails and fetchFn then fails, the call returns that        *)
(* entry's value and does not raise.                                       *)
C1_StaleFallback ==
    [][\A e \in FetchErrors :
         (/\ last'.op = "getCachedOrFetch"
          /\ last'.step = "await"
          /\ ~last'.fault
          /\ StoredData(cache, durable, last'.key) \notin {NoEntry, Null})
         => LET r == FetchRejectOp(cache', durable', last'.key, e, FALSE)
            IN /\ r.raised = NoError
               /\ r.ret = StoredData(cache, durable, last'.key)]_vars

(* C2: fetch suppression. A getCachedOrFetch(k, fetchFn, ttl) made while a *)
(* non-expired entry exists for k (fast tier, or durable tier only), with  *)
(* no storage call failing, returns that entry's value and does not call   *)
(* fetchFn, whatever the value stored.                                     *)
C2_FetchSuppression ==
    [][(/\ last'.op = "getCachedOrFetch"
        /\ last'.step \in {"hit", "await"}
        /\ ~last'.fault
        /\ FreshEntry(cache, durable, clock, last'.key))
       => /\ ~last'.fetched
          /\ last'.ret = StoredData(cache, durable, last'.key)]_vars

(* C3: when fetchFn fails and neither tier holds an entry for k at that    *)
(* moment, getCachedOrFetch raises the very error fetchFn failed with and  *)
(* leaves both tiers as they were.                                         *)
C3_FetchFailurePropagates ==
    [][(/\ last'.op = "getCachedOrFetch"
        /\ last'.step = "reject"
        /\ last'.key \notin DOMAIN cache
        /\ StorageKey(last'.key) \notin DOMAIN durable)
       => /\ last'.raised = last'.data
          /\ last'.raised \in FetchErrors
          /\ cache' = cache
          /\ durable' = durable]_vars

C3_Witness ==
    /\ last.op = "getCachedOrFetch"
    /\ last.step = "reject"
    /\ last.raised \in FetchErrors
    /\ last.key \notin DOMAIN cache
    /\ StorageKey(last.key) \notin DOMAIN durable

C5_InvalidateExactly ==
    [][(last'.op = "invalidatePattern" /\ ~last'.fault) =>
         \A k \in w.keys :
            IF Includes(k, last'.key)
            THEN /\ k \notin DOMAIN cache'
                 /\ GetOp(cache', durable', clock', k, FALSE, FALSE).ret = Null
            ELSE SameEntry(k)]_vars

(* C5 amended: invalidatePattern(p) removes exactly the keys resident in   *)
(* the fast tier that contain p: each leaves the fast tier and, unless its *)
(* removeItem throws, the durable tier, after which a get on it returns    *)
(* miss; every other key (not containing p, or present in the durable tier *)
(* only) keeps its entry in both tiers.                                    *)
C5_InvalidateResident ==
    [][last'.op = "invalidatePattern" =>
         \A k \in w.keys :
            IF Includes(k, last'.key) /\ k \in DOMAIN cache
            THEN /\ k \notin DOMAIN cache'
                 /\ StorageKey(k) \in DOMAIN durable' =>
                       /\ last'.fault
                       /\ StorageKey(k) \in DOMAIN durable
                       /\ durable'[StorageKey(k)] = durable[StorageKey(k)]
                 /\ StorageKey(k) \notin DOMAIN durable' =>
                       GetOp(cache', durable', clock', k, FALSE, FALSE).ret = Null
            ELSE SameEntry(k)]_vars

C5_Witness ==
    /\ last.op = "invalidatePattern"
    /\ last.key = "user"
    /\ "user_dashboard" \in DOMAIN written
    /\ "user_dashboard" \notin DOMAIN cache
    /\ StorageKey("user_dashboard") \notin DOMAIN durable
    /\ "leaderboard_global_10" \in DOMAIN cache
    /\ StorageKey("leaderboard_global_10") \in DOMAIN durable

C7_DurableRoundTrip ==
    [][(/\ last.op = "restart"
        /\ last'.op = "get"
        /\ ~last'.fault
        /\ last'.key \in DOMAIN written
        /\ written[last'.key].mirrored
        /\ StorageKey(last'.key) \in DOMAIN durable
        /\ clock - written[last'.key].timestamp <= written[last'.key].ttl)
       => last'.ret = written[last'.key].data]_vars

(* C8: an expired entry with a value other than null that get(k) reports   *)
(* as a miss, no storage call failing, is still returned by a stale lookup *)
(* of k made after that get.                                               *)
C8_StaleAfterMiss ==
    [][(/\ last'.op = "get"
        /\ ~last'.fault
        /\ last'.key \in DOMAIN cache
        /\ cache[last'.key].data # Null
        /\ IsExpired(cache[last'.key], clock))
       => /\ last'.ret = Null
          /\ GetStale(cache', durable', last'.key, FALSE) = cache[last'.key].data]_vars

C10_NoStorageErrorEscapes ==
    /\ last.raised \notin StorageErrors
    /\ last.raised # NoError =>
          /\ last.op = "getCachedOrFetch"
          /\ last.step = "reject"
          /\ last.raised \in FetchErrors
          /\ last.raised = last.data
          /\ last.fault \/ GetStale(cache, durable, last.key, FALSE) = Null

C10_Witness ==
    /\ last.op = "delete"
    /\ last.fault
    /\ last.raised = NoError
    /\ last.key \notin DOMAIN cache
    /\ StorageKey(last.key) \in DOMAIN durable

(* C11: a record under cache_k that is not a serialized cache entry        *)
(* (unparsable text, or JSON of another shape) counts as absent: with no   *)
(* entry for k in the fast tier, get(k) returns miss without raising and   *)
(* promotes nothing, and getCachedOrFetch(k, fetchFn) calls fetchFn.       *)
C11_ForeignRecordAbsent ==
    [][(/\ last'.op \in {"get", "getCachedOrFetch"}
        /\ last'.step \in {"", "hit", "await"}
        /\ last'.key \notin DOMAIN cache
        /\ StorageKey(last'.key) \in DOMAIN durable
        /\ durable[StorageKey(last'.key)] \in ForeignRecords)
       => /\ last'.raised = NoError
          /\ last'.key \notin DOMAIN cache'
          /\ last'.op = "get" => last'.ret = Null
          /\ last'.op = "getCachedOrFetch" => last'.fetched]_vars

(* Another getCachedOrFetch of the same key is waiting for its fetchFn *)
OtherAwaits(k) == \E j \in CallIds : pending[j].active /\ pending[j].key = k

UnrelatedUntouched ==
    /\ \A sk \in DOMAIN durable :
          ~StartsWith(sk, Prefix) => sk \in DOMAIN durable' /\ durable'[sk] = durable[sk]
    /\ \A sk \in DOMAIN durable' : ~StartsWith(sk, Prefix) => sk \in DOMAIN durable

(* C13 as stated: clear() leaves every record whose storage key does not   *)
(* start with cache_ as it was, and removes every record whose storage key *)
(* starts with cache_, however many there are.                             *)
C13_ClearFrame ==
    [][last'.op = "clear" =>
         /\ UnrelatedUntouched
         /\ KeysToRemove(durable') = {}]_vars

(* C13 amended: clear() leaves every record whose storage key does not     *)
(* start with cache_ as it was; when no durable-tier call throws it        *)
(* removes every record whose storage key starts with cache_, however many *)
(* there are; when one throws, the cache_ records not removed yet stay as  *)
(* they were.                                                              *)
C13_ClearFrameNoFault ==
    [][last'.op = "clear" =>
         /\ UnrelatedUntouched
         /\ ~last'.fault => KeysToRemove(durable') = {}
         /\ \A sk \in KeysToRemove(durable') :
               /\ last'.fault
               /\ sk \in DOMAIN durable
               /\ durable'[sk] = durable[sk]]_vars

C13_Witness ==
    /\ last.op = "clear"
    /\ ~last.fault
    /\ durable = OtherStorage
    /\ \A k \in {"user_dashboard", "leaderboard_global_10"} : k \in DOMAIN written /\ written[k].mirrored

(* C14 as stated: delete(k) removes k from the fast tier and cache_k from  *)
(* the durable tier, raises nothing and leaves every other key as it was   *)
(* in both tiers (so deleting an absent key changes nothing), and a second *)
(* delete(k) changes nothing more.                                         *)
C14_DeleteBothTiers ==
    [][last'.op = "delete" =>
         /\ last'.raised = NoError
         /\ cache' = MapDel(cache, last'.key)
         /\ durable' = MapDel(durable, StorageKey(last'.key))
         /\ \A throws \in BOOLEAN :
               LET again == DeleteOp(cache', durable', last'.key, throws)
               IN /\ again.raised = NoError
                  /\ again.cache = cache'
                  /\ again.durable = durable']_vars

(* C14 amended: delete(k) removes k from the fast tier and, unless         *)
(* removeItem throws, cache_k from the durable tier (the record stays as   *)
(* it was when removeItem throws); it raises nothing and leaves every      *)
(* other key as it was in both tiers, so deleting an absent key changes    *)
(* nothing; after a delete(k) whose removeItem did not throw a second      *)
(* delete(k) changes nothing more.                                         *)
C14_DeleteUnlessRemoveThrows ==
    [][last'.op = "delete" =>
         /\ last'.raised = NoError
         /\ cache' = MapDel(cache, last'.key)
         /\ durable' = IF last'.fault THEN durable
                       ELSE MapDel(durable, StorageKey(last'.key))
         /\ ~last'.fault =>
               \A throws \in BOOLEAN :
                  LET again == DeleteOp(cache', durable', last'.key, throws)
                  IN /\ again.raised = NoError
                     /\ again.cache = cache'
                     /\ again.durable = durable']_vars

C14_Witness ==
    /\ last.op = "delete"
    /\ ~last.fault
    /\ last.key = "user_dashboard"
    /\ last.prior.fast = "5"
    /\ last.prior.durable = "5"
    /\ "user_dashboard" \notin DOMAIN cache
    /\ StorageKey("user_dashboard") \notin DOMAIN durable
    /\ "leaderboard_global_10" \in DOMAIN cache
    /\ StorageKey("leaderboard_global_10") \in DOMAIN durable

(* C15: TTL defaulting. The entry stored by set(k, v, ttl) or by a         *)
(* getCachedOrFetch(k, fetchFn, ttl) whose fetch resolved has the caller's *)
(* ttl whenever one was supplied, 0 included, and the default of 5 minutes *)
(* exactly when none was supplied.                                         *)
C15_TtlDefaulting ==
    (\/ last.op = "set"
     \/ last.op = "getCachedOrFetch" /\ last.step = "resolve")
    => /\ last.key \in DOMAIN cache
       /\ cache[last.key].ttl = IF last.ttl = NoTtl THEN 5 * 60 * 1000 ELSE last.ttl
       /\ ~last.fault =>
             durable[StorageKey(last.key)].ttl = cache[last.key].ttl

(* C16: no fabricated data. A value getCachedOrFetch(k, fetchFn) returns   *)
(* is the value its own fetchFn resolved with or the data of an entry      *)
(* stored earlier by set, preload or getCachedOrFetch, all of which are    *)
(* values of the workload; it is never a value nobody stored, such as      *)
(* undefined.                                                              *)
C16_NoFabricatedData ==
    (/\ last.op = "getCachedOrFetch"
     /\ last.step \in {"hit", "resolve", "reject"}
     /\ last.raised = NoError)
    => /\ last.ret \in w.vals
       /\ last.step = "resolve" => last.ret = last.data

(* k is absent from the fast tier and the durable tier holds a serialized  *)
(* cache entry for k that has not expired                                  *)
DurableOnlyFresh(k) ==
    /\ k \notin DOMAIN cache
    /\ StorageKey(k) \in DOMAIN durable
    /\ durable[StorageKey(k)].kind = "item"
    /\ ~IsExpired(Parse(durable[StorageKey(k)]), clock)

(* get(k) returned the durable entry of k and left it in the fast tier     *)
(* with the value, timestamp and ttl of the record                         *)
Promoted(k) ==
    /\ last'.ret = Parse(durable[StorageKey(k)]).data
    /\ last'.raised = NoError
    /\ k \in DOMAIN cache'
    /\ cache'[k] = Parse(durable[StorageKey(k)])
    /\ k \in GetStats(cache').keys
    /\ GetStats(cache').size = GetStats(cache).size + 1
    /\ durable' = durable

(* C17 as stated: promotion on read. When k is absent from the fast tier   *)
(* and the durable tier holds a valid non-expired entry for k, get(k)      *)
(* returns its value and the fast tier then holds k with the value,        *)
(* timestamp and ttl of the record, so k is among getStats().keys.         *)
C17_PromotionOnRead ==
    [][(last'.op = "get" /\ DurableOnlyFresh(last'.key))
       => Promoted(last'.key)]_vars

(* C17 amended: the same, provided localStorage.getItem does not throw in  *)
(* that get; when it throws, get(k) returns miss and nothing is promoted.  *)
C17_PromotionUnlessReadThrows ==
    [][(last'.op = "get" /\ DurableOnlyFresh(last'.key))
       => IF last'.fault
          THEN last'.ret = Null /\ cache' = cache /\ durable' = durable
          ELSE Promoted(last'.key)]_vars

C17_Witness ==
    /\ last.op = "get"
    /\ ~last.fault
    /\ last.prior = [fast |-> NoEntry, durable |-> "5"]
    /\ last.ret = "5"
    /\ last.key \in DOMAIN cache
    /\ cache[last.key] = Parse(durable[StorageKey(last.key)])
    /\ cache[last.key].timestamp < clock

(* C18 as stated: after set(k, v2, t2) neither tier holds a previous entry *)
(* of k: the fast tier holds the new entry and the durable tier holds the  *)
(* record of the new entry or no record for k.                             *)
C18_WriteOverwritesBoth ==
    [][last'.op = "set" =>
         LET item == NewItem(last'.data, clock, last'.ttl)
         IN /\ cache'[last'.key] = item
            /\ StorageKey(last'.key) \in DOMAIN durable'
                 => durable'[StorageKey(last'.key)] = Stringify(item)]_vars

(* C18 amended: after set(k, v2, t2) the fast tier holds the new entry and *)
(* no previous one; the durable tier holds the record of the new entry     *)
(* when its write succeeded, and when the write failed (setItem or         *)
(* JSON.stringify threw) it is as it was before, a previous record of k    *)
(* included.                                                               *)
C18_WriteOverwritesUnlessWriteFails ==
    [][last'.op = "set" =>
         LET item == NewItem(last'.data, clock, last'.ttl)
         IN /\ cache'[last'.key] = item
            /\ IF last'.fault
               THEN durable' = durable
               ELSE durable' = MapPut(durable, StorageKey(last'.key), Stringify(item))]_vars

C18_Witness ==
    /\ last.op = "set"
    /\ ~last.fault
    /\ last.prior = [fast |-> "5", durable |-> "5"]
    /\ last.data = "obj"
    /\ cache[last.key].data = "obj"
    /\ durable[StorageKey(last.key)].data = "obj"

(* The get of the step finds an entry for k: in the fast tier, or by       *)
(* reading and parsing the record of the durable tier (no call throwing)   *)
Finds(k) ==
    \/ k \in DOMAIN cache
    \/ /\ ~last'.fault
       /\ StorageKey(k) \in DOMAIN durable
       /\ ~ParseThrows(durable[StorageKey(k)])

FoundItem(k) == IF k \in DOMAIN cache THEN cache[k] ELSE Parse(durable[StorageKey(k)])

(* C19 as stated: lazy eviction. A get(k) that finds an expired entry      *)
(* returns miss and leaves k absent from the fast tier and cache_k absent  *)
(* from the durable tier; a get(k) that finds a non-expired entry returns  *)
(* its value and removes nothing.                                          *)
C19_LazyEviction ==
    [][(last'.op = "get" /\ Finds(last'.key)) =>
         LET k == last'.key
         IN IF IsExpired(FoundItem(k), clock)
            THEN /\ last'.ret = Null
                 /\ k \notin DOMAIN cache'
                 /\ StorageKey(k) \notin DOMAIN durable'
            ELSE /\ last'.ret = FoundItem(k).data
                 /\ cache' = MapPut(cache, k, FoundItem(k))
                 /\ durable' = durable]_vars

(* C19 amended: a get(k) that finds an expired entry returns miss and      *)
(* leaves k absent from the fast tier and, unless removeItem throws,       *)
(* cache_k absent from the durable tier (when it throws the record stays   *)
(* as it was); no other key is touched; a get(k) that finds a non-expired  *)
(* entry returns its value and removes nothing.                            *)
C19_LazyEvictionUnlessRemoveThrows ==
    [][last'.op = "get" =>
         LET k == last'.key
         IN /\ Finds(k) =>
                 IF IsExpired(FoundItem(k), clock)
                 THEN /\ last'.ret = Null
                      /\ cache' = MapDel(cache, k)
                      /\ durable' = IF last'.fault THEN durable
                                    ELSE MapDel(durable, StorageKey(k))
                 ELSE /\ last'.ret = FoundItem(k).data
                      /\ cache' = MapPut(cache, k, FoundItem(k))
                      /\ durable' = durable
            /\ (k \notin DOMAIN cache /\ last'.fault) =>
                 /\ last'.ret = Null
                 /\ cache' = cache
                 /\ durable' = durable]_vars

C19_Witness ==
    /\ last.op = "get"
    /\ ~last.fault
    /\ last.prior = [fast |-> "5", durable |-> "5"]
    /\ last.ret = Null
    /\ last.key \notin DOMAIN cache
    /\ StorageKey(last.key) \notin DOMAIN durable

(* C20: expiry is the strict comparison now - timestamp > ttl, the same in *)
(* get and in cleanup. A get(k) that finds an entry returns its value and  *)
(* keeps it while now - timestamp <= ttl (at now = timestamp + ttl too)    *)
(* and returns miss and drops it from the fast tier from one clock unit    *)
(* later on; cleanup removes from the fast tier exactly the entries with   *)
(* now - timestamp > ttl and leaves the others as they were in both tiers. *)
C20_StrictExpiry ==
    [][/\ (/\ last'.op = "get"
           /\ Finds(last'.key)
           /\ FoundItem(last'.key).timestamp # NoTimestamp)
          => LET k == last'.key
                 item == FoundItem(k)
             IN IF clock - item.timestamp <= item.ttl
                THEN last'.ret = item.data /\ k \in DOMAIN cache' /\ cache'[k] = item
                ELSE last'.ret = Null /\ k \notin DOMAIN cache'
       /\ last'.op = "cleanup"
          => \A k \in DOMAIN cache :
                cache[k].timestamp # NoTimestamp =>
                   IF clock - cache[k].timestamp <= cache[k].ttl
                   THEN /\ k \in DOMAIN cache'
                        /\ cache'[k] = cache[k]
                        /\ StorageKey(k) \in DOMAIN durable
                             => /\ StorageKey(k) \in DOMAIN durable'
                                /\ durable'[StorageKey(k)] = durable[StorageKey(k)]
                   ELSE k \notin DOMAIN cache']_vars

C20_Witness ==
    /\ last.op = "get"
    /\ last.prior.fast = "5"
    /\ last.ret = "5"
    /\ last.key \in DOMAIN cache
    /\ cache[last.key].ttl = 1
    /\ clock = cache[last.key].timestamp + cache[last.key].ttl

(* C21 as stated: after cleanup() the fast tier holds no entry that is     *)
(* expired at the clock value cleanup read, every entry that was expired   *)
(* is gone from the durable tier too, and every fast-tier entry that was   *)
(* not expired is unchanged in both tiers.                                 *)
C21_Sweep ==
    [][last'.op = "cleanup" =>
         /\ \A k \in DOMAIN cache' : ~IsExpired(cache'[k], clock)
         /\ \A k \in DOMAIN cache :
               IF IsExpired(cache[k], clock)
               THEN k \notin DOMAIN cache' /\ StorageKey(k) \notin DOMAIN durable'
               ELSE SameEntry(k)]_vars

(* C21 amended: after cleanup() the fast tier holds no entry that is       *)
(* expired at the clock value cleanup read; every entry that was expired   *)
(* is gone from the durable tier too unless its removeItem threw, in which *)
(* case its record stays as it was; every fast-tier entry that was not     *)
(* expired is unchanged in both tiers.                                     *)
C21_SweepUnlessRemoveThrows ==
    [][last'.op = "cleanup" =>
         /\ last'.raised = NoError
         /\ \A k \in DOMAIN cache' : ~IsExpired(cache'[k], clock)
         /\ \A k \in DOMAIN cache :
               IF IsExpired(cache[k], clock)
               THEN /\ k \notin DOMAIN cache'
                    /\ StorageKey(k) \in DOMAIN durable' =>
                          /\ last'.fault
                          /\ StorageKey(k) \in DOMAIN durable
                          /\ durable'[StorageKey(k)] = durable[StorageKey(k)]
               ELSE SameEntry(k)]_vars

C21_Witness ==
    /\ last.op = "cleanup"
    /\ ~last.fault
    /\ clock = 2
    /\ "user_dashboard" \in DOMAIN written
    /\ written["user_dashboard"] = WrittenItem("5", 0, 1, TRUE)
    /\ "user_dashboard" \notin DOMAIN cache
    /\ StorageKey("user_dashboard") \notin DOMAIN durable
    /\ "leaderboard_global_10" \in DOMAIN cache
    /\ cache["leaderboard_global_10"].timestamp = 1
    /\ StorageKey("leaderboard_global_10") \in DOMAIN durable

(* C22: stale read from the durable tier. When fetchFn fails while k is    *)
(* absent from the fast tier and the durable tier holds the record of a    *)
(* cache entry for k whose value is not null, no storage call failing,     *)
(* getCachedOrFetch returns the value of that record and does not raise,   *)
(* whatever the age of the record and whatever the value, falsy ones       *)
(* included.                                                               *)
C22_StaleFromDurable ==
    [][(/\ last'.op = "getCachedOrFetch"
        /\ last'.step = "reject"
        /\ ~last'.fault
        /\ last'.key \notin DOMAIN cache
        /\ StorageKey(last'.key) \in DOMAIN durable
        /\ durable[StorageKey(last'.key)].kind = "item"
        /\ durable[StorageKey(last'.key)].data # "null")
       => /\ last'.raised = NoError
          /\ last'.ret = Parse(durable[StorageKey(last'.key)]).data]_vars

(* The step is the settling of the fetchFn of call i: the call returns the *)
(* value fetched, or returns a stale value or raises the fetch error       *)
Settles(i) ==
    /\ last'.op = "getCachedOrFetch"
    /\ last'.key = pending[i].key
    /\ \/ last'.step = "resolve" /\ last'.ret = last'.data /\ last'.raised = NoError
       \/ last'.step = "reject" /\ last'.raised \in {NoError, last'.data}
    /\ pending' = [pending EXCEPT ![i] = Idle]

(* C23: completion of getCachedOrFetch. A call that finds a non-expired    *)
(* entry with a value other than null returns it in the same step and      *)
(* never waits; a call starts waiting only by calling fetchFn on a miss    *)
(* and stops waiting only when its fetchFn settles (or the page is         *)
(* reloaded), and then it returns or raises; every other operation runs to *)
(* completion in one step and leaves the waiting calls waiting: get, set,  *)
(* delete, clear and cleanup are possible whenever a call waits, and so is *)
(* another getCachedOrFetch while a call slot is free.                     *)
C23_Completion ==
    /\ []((\E i \in CallIds : pending[i].active) =>
            /\ \A k \in w.keys :
                  /\ ENABLED Get(k, FALSE, FALSE)
                  /\ ENABLED Delete(k, FALSE)
                  /\ ENABLED (\E v \in w.vals, t \in w.ttls : Set(k, v, t, FALSE))
                  /\ (\E j \in CallIds : j <= w.callers /\ ~pending[j].active)
                       => ENABLED (\E j \in CallIds, t \in w.ttls :
                                      FetchStart(j, k, t, FALSE, FALSE))
            /\ ENABLED Clear(FALSE, KeysToRemove(durable))
            /\ ENABLED Cleanup({}))
    /\ [][/\ (/\ last'.op = "getCachedOrFetch"
               /\ last'.step \in {"hit", "await"}
               /\ last'.key \in DOMAIN cache
               /\ ~IsExpired(cache[last'.key], clock)
               /\ cache[last'.key].data # Null)
              => /\ last'.step = "hit"
                 /\ last'.ret = cache[last'.key].data
                 /\ pending' = pending
           /\ \A i \in CallIds :
                 /\ (~pending[i].active /\ pending'[i].active)
                      => /\ last'.op = "getCachedOrFetch"
                         /\ last'.step = "await"
                         /\ last'.fetched
                         /\ pending' = [pending EXCEPT ![i] = pending'[i]]
                 /\ (pending[i].active /\ ~pending'[i].active)
                      => Settles(i) \/ last'.op = "restart"
           /\ (last'.op = "getCachedOrFetch" /\ last'.step \in {"resolve", "reject"})
              => \E j \in CallIds : pending[j].active /\ Settles(j)
           /\ last'.op \notin {"getCachedOrFetch", "restart"} => pending' = pending]_vars

C23_Witness ==
    /\ pending[1].active
    /\ last.op = "getCachedOrFetch"
    /\ last.step = "hit"
    /\ last.key = pending[1].key
    /\ last.ret = "7"

(* The step is a run of cleanup() started by the setInterval timer *)
TimerSweep == last'.op = "cleanup" /\ last'.step = "timer"

(* C24: the periodic sweep can be stopped at teardown. clear() is the      *)
(* teardown of the store (ApiService.clearAllCaches, run at logout): once  *)
(* it has run, the timer does not call cleanup() again.                    *)
C24_SweepStoppable ==
    [][last.op = "clear" => ~TimerSweep]_vars

(* C25 as stated: invalidation does not cancel an outstanding fetch. When  *)
(* delete(K), clear() or an invalidatePattern matching K ran while a       *)
(* getCachedOrFetch(K, f) was waiting and f then resolves, its value is    *)
(* written under K in both tiers and returned, and a get(K) after that     *)
(* returns it.                                                             *)
C25_InvalidationDoesNotCancel ==
    [][(/\ last'.op = "getCachedOrFetch"
        /\ last'.step = "resolve"
        /\ Invalidates(last, last'.key))
       => LET k == last'.key
              item == NewItem(last'.data, clock, last'.ttl)
          IN /\ last'.ret = last'.data
             /\ last'.raised = NoError
             /\ k \in DOMAIN cache' /\ cache'[k] = item
             /\ StorageKey(k) \in DOMAIN durable'
             /\ durable'[StorageKey(k)] = Stringify(item)
             /\ GetOp(cache', durable', clock, k, FALSE, FALSE).ret = last'.data]_vars

(* C25 amended: the same, the value being written under K in the fast tier *)
(* always and in the durable tier unless the durable write fails (the      *)
(* durable tier then stays as the invalidation left it).                   *)
C25_InvalidationDoesNotCancelWrite ==
    [][(/\ last'.op = "getCachedOrFetch"
        /\ last'.step = "resolve"
        /\ Invalidates(last, last'.key))
       => LET k == last'.key
              item == NewItem(last'.data, clock, last'.ttl)
          IN /\ last'.invalidated
             /\ last'.ret = last'.data
             /\ last'.raised = NoError
             /\ k \in DOMAIN cache' /\ cache'[k] = item
             /\ durable' = IF last'.fault THEN durable
                           ELSE MapPut(durable, StorageKey(k), Stringify(item))
             /\ GetOp(cache', durable', clock, k, FALSE, FALSE).ret = last'.data]_vars

C25_Witness ==
    /\ last.op = "getCachedOrFetch"
    /\ last.step = "resolve"
    /\ last.invalidated
    /\ ~last.fault
    /\ last.data = "7"
    /\ cache[last.key].data = "7"
    /\ durable[StorageKey(last.key)].data = "7"

(* C26: after a startTest or submitTest whose POST succeeded, no storage   *)
(* call failing, the next getUserDashboard, getGlobalLeaderboard, ... call *)
(* (a getCachedOrFetch of that key) calls its fetchFn, also when the entry *)
(* was in the durable tier only; when the POST failed no entry is removed. *)
C26_SubmitInvalidates ==
    [][(last'.op = "submitTest" /\ ~last'.fault) =>
         IF last'.step = "posted"
         THEN \A k \in w.keys :
                 FetchStartOp(cache', durable', clock, k, FALSE, FALSE).fetched
         ELSE cache' = cache /\ durable' = durable]_vars

(* Every key of the Map has a record in localStorage that parses to the    *)
(* Map's entry: same data, timestamp and ttl                               *)
Consistent(c, d) ==
    \A k \in DOMAIN c :
        /\ StorageKey(k) \in DOMAIN d
        /\ ~ParseThrows(d[StorageKey(k)])
        /\ Parse(d[StorageKey(k)]) = c[k]

(* C27: tier consistency. With no other consumer writing under the prefix, *)
(* a step of the cache in which no durable-tier call fails keeps this      *)
(* true: every key resident in the fast tier has a durable record whose    *)
(* value, storedAt and ttl equal the fast-tier entry's.                    *)
C27_TierConsistency ==
    [][(/\ w.shared = {}
        /\ Consistent(cache, durable)
        /\ ~last'.fault)
       => Consistent(cache', durable')]_vars

(* C28: a failed fetch is masked by a concurrent successful one. When a    *)
(* set(K, v) or the successful fetch of another getCachedOrFetch(K, f2)    *)
(* stores v while getCachedOrFetch(K, f1) awaits f1, and f1 then fails,    *)
(* the first call returns v, does not raise and writes nothing.            *)
C28_FailedFetchMasked ==
    [][(/\ last'.op = "getCachedOrFetch" /\ last'.step = "reject"
        /\ \/ last.op = "set"
           \/ last.op = "getCachedOrFetch" /\ last.step = "resolve"
        /\ last.key = last'.key)
       => /\ last'.ret = last.data
          /\ last'.raised = NoError
          /\ cache' = cache /\ durable' = durable]_vars

(* A removal step in which a removeItem threw: delete, invalidatePattern,  *)
(* cleanup, or a get (whose lazy eviction is the only removal it makes)    *)
RemovalFailed ==
    /\ last'.fault
    /\ last'.op \in {"delete", "invalidatePattern", "cleanup", "get"}

(* The removal step raises nothing, takes its keys out of the Map and      *)
(* leaves every record of localStorage it did not remove as it was; the    *)
(* record of a key whose removeItem threw is still there.                  *)
RemovedFromFastOnly ==
    /\ last'.raised = NoError
    /\ \A sk \in DOMAIN durable' :
          sk \in DOMAIN durable /\ durable'[sk] = durable[sk]
    /\ last'.op \in {"delete", "get"} =>
          /\ last'.key \notin DOMAIN cache'
          /\ durable' = durable
    /\ last'.op = "invalidatePattern" =>
          /\ \A k \in DOMAIN cache' : ~Includes(k, last'.key)
          /\ \E k \in DOMAIN cache \ DOMAIN cache' :
                StorageKey(k) \in DOMAIN durable => StorageKey(k) \in DOMAIN durable'
    /\ last'.op = "cleanup" =>
          /\ \A k \in DOMAIN cache' : ~IsExpired(cache'[k], clock)
          /\ \E k \in DOMAIN cache \ DOMAIN cache' :
                StorageKey(k) \in DOMAIN durable => StorageKey(k) \in DOMAIN durable'

(* A get(k) that follows a delete(k) or invalidatePattern(p), p in k,      *)
(* whose removeItem threw, while the surviving record of k, a serialized   *)
(* entry, is not expired                                                   *)
GetAfterFailedRemoval ==
    /\ last.fault
    /\ \/ last.op = "delete" /\ last.key = last'.key
       \/ last.op = "invalidatePattern" /\ Includes(last'.key, last.key)
    /\ last'.op = "get"
    /\ last'.key \notin DOMAIN cache
    /\ StorageKey(last'.key) \in DOMAIN durable
    /\ durable[StorageKey(last'.key)].kind = "item"
    /\ ~IsExpired(Parse(durable[StorageKey(last'.key)]), clock)

NotResident(c, d) ==
    {sk \in DOMAIN d : \A k \in DOMAIN c : sk # StorageKey(k)}

(* C30: cleanup() and invalidatePattern(p) change nothing for keys that    *)
(* are not resident in the fast tier: a record cache_k whose key k is not  *)
(* in the fast tier is neither removed nor modified by either operation,   *)
(* however long it has been expired and whether or not k contains p, and   *)
(* no key enters the fast tier.                                            *)
C30_NonResidentUntouched ==
    [][last'.op \in {"cleanup", "invalidatePattern"} =>
         /\ DOMAIN cache' \subseteq DOMAIN cache
         /\ \A sk \in NotResident(cache, durable) :
               sk \in DOMAIN durable' /\ durable'[sk] = durable[sk]]_vars

C30_Witness ==
    /\ last.op = "invalidatePattern"
    /\ ~last.fault
    /\ last.key = "leaderboard"
    /\ "leaderboard_global_10" \notin DOMAIN cache
    /\ StorageKey("leaderboard_global_10") \in DOMAIN durable
    /\ IsExpired(Parse(durable[StorageKey("leaderboard_global_10")]), clock)

====
